---- MODULE Spec2Model ----
(***************************************************************************)
(* Clinic dashboard: the file loader (DataLoader), the filter engine       *)
(* (Filters, with its SearchableSelect widgets and DOM inputs), the        *)
(* orchestrator (App) and the aggregator (DataProcessor).                  *)
(*                                                                         *)
(* Time is counted in ticks since the epoch (UTC); a calendar day has      *)
(* TicksPerDay ticks and the browser's zone is tz ticks east of UTC.  An   *)
(* age is a rational number kept as a count of 1/AgeDen years.             *)
(***************************************************************************)
EXTENDS Integers, Sequences, FiniteSets, TLC

\* ------------------------------------------------------------------ bounds
MaxRows == 2
MaxPending == 1
TicksPerDay == 2
AgeDen == 2
DaysPerMonth == 2
MaxAge == 90

\* ------------------------------------------------------------- JS values
\* A JavaScript value: k is its type, s its text, n its number.
\*   undef, null; str (s); num (n); date (n = epoch ticks); baddate (a Date
\*   object whose time value is NaN).
\* In the date column a str carries the format class in s and the fields in
\* n: "isodate" (YYYY-MM-DD of day n, read as UTC), "localtime" (a date-time
\* text without zone for local tick n), anything else does not parse.
\* In the age column a str with s = "numeric" is a text parseFloat reads as
\* n / AgeDen; a num is n / AgeDen.
Undef == [k |-> "undef", s |-> "", n |-> 0]
Null == [k |-> "null", s |-> "", n |-> 0]
Str(x) == [k |-> "str", s |-> x, n |-> 0]
StrN(x, i) == [k |-> "str", s |-> x, n |-> i]
Num(i) == [k |-> "num", s |-> "", n |-> i]
DateAt(t) == [k |-> "date", s |-> "", n |-> t]
BadDate == [k |-> "baddate", s |-> "", n |-> 0]

\* Number-to-text of the small integers the text columns can hold.
NumStr(i) ==
    CASE i = 0 -> "0"
      [] i = 1 -> "1"
      [] i = 2 -> "2"
      [] OTHER -> "3"

\* String(v) for the values of a text column.
String(v) ==
    CASE v.k = "undef" -> "undefined"
      [] v.k = "null" -> "null"
      [] v.k = "num" -> NumStr(v.n)
      [] OTHER -> v.s

\* JavaScript truthiness: undefined, null, '', 0 are falsy; objects are truthy.
Truthy(v) ==
    CASE v.k = "undef" -> FALSE
      [] v.k = "null" -> FALSE
      [] v.k = "str" -> v.s # ""
      [] v.k = "num" -> v.n # 0
      [] OTHER -> TRUE

\* d instanceof Date
IsDateObj(v) == v.k \in {"date", "baddate"}

\* ------------------------------------------------------------ columns
FilterFields == {"company", "purpose", "month", "sex", "label", "finding"}
Columns == FilterFields \cup {"date", "employee", "age", "icd"}

\* ------------------------------------------------------------- sequences
Range(seq) == {seq[i] : i \in 1..Len(seq)}

\* Array.prototype.includes
Includes(seq, x) == \E i \in 1..Len(seq) : seq[i] = x

SeqsUpTo(S, n) == UNION {[1..m -> S] : m \in 0..n}

Min(S) == CHOOSE x \in S : \A y \in S : x <= y
Max(S) == CHOOSE x \in S : \A y \in S : x >= y

\* ------------------------------------------------------------- calendar
\* getFullYear/getMonth/getDate of a valid Date: its local calendar day.
LocalDay(t, zone) == (t + zone) \div TicksPerDay
\* toISOString().split('T')[0]: the UTC calendar day.
UtcDay(t) == t \div TicksPerDay
\* new Date(year, month - 1, day, 0, 0, 0, 0)
StartOfLocalDay(d, zone) == d * TicksPerDay - zone
\* The end date read as the first instant of its day instead of the last.
EndOfLocalDayAtMidnight(d, zone) == d * TicksPerDay - zone

\* new Date(year, month - 1, day, 23, 59, 59, 999)
EndOfLocalDay(d, zone) == d * TicksPerDay + (TicksPerDay - 1) - zone

\* ------------------------------------------------------------ DataLoader
\* new Date(dateVal) for a truthy value that is no Date object.
ParseDateValue(v, zone) ==
    CASE v.k = "num" -> DateAt(v.n)
      [] v.k = "str" /\ v.s = "isodate" -> DateAt(v.n * TicksPerDay)
      [] v.k = "str" /\ v.s = "localtime" -> DateAt(v.n - zone)
      [] OTHER -> BadDate

\* parseFloat of an age cell; NaN is reported as Null (isNaN(age) ? null : age).
ParseAgeValue(v) ==
    CASE v.k = "num" -> Num(v.n)
      [] v.k = "str" /\ v.s = "numeric" -> Num(v.n)
      [] OTHER -> Null

\* DataLoader.processData, the map step on one row.
ProcessRow(row, zone) ==
    [c \in Columns |->
        CASE c = "date" ->
                IF Truthy(row[c])
                THEN IF IsDateObj(row[c]) THEN row[c]
                     ELSE LET parsed == ParseDateValue(row[c], zone)
                          IN IF parsed.k = "baddate" THEN Null ELSE parsed
                ELSE row[c]
          [] c = "age" ->
                IF row[c].k # "undef" THEN ParseAgeValue(row[c]) ELSE row[c]
          [] c = "employee" ->
                IF row[c].k # "undef"
                THEN (IF Truthy(row[c]) THEN Str(String(row[c])) ELSE Str(""))
                ELSE row[c]
          [] OTHER -> row[c]]

\* The filter step of processData: a row with some value that is not null,
\* '' or undefined.
NotEmptyRow(row) ==
    \E c \in Columns :
        /\ row[c].k \notin {"null", "undef"}
        /\ ~(row[c].k = "str" /\ row[c].s = "")

\* DataLoader.processData
ProcessData(rows, zone) ==
    LET Proc(r) == ProcessRow(r, zone)
    IN SelectSeq([i \in 1..Len(rows) |-> Proc(rows[i])], NotEmptyRow)

\* DataLoader.parseFile: the extensions that reach a parser.
SupportedExt == {"csv", "xlsx", "xls"}

\* --------------------------------------------------------------- Filters
\* Filters.getUniqueValues: the distinct String(val) of the values that are
\* not null, undefined or ''.  The result is the set of options the widget
\* offers; the order in which the widget lists them is not modelled.
GetUniqueValues(data, column) ==
    {String(data[i][column]) : i \in
        {j \in 1..Len(data) :
            /\ data[j][column].k \notin {"null", "undef"}
            /\ ~(data[j][column].k = "str" /\ data[j][column].s = "")}}

\* The dates populateDateRange keeps: d instanceof Date && !isNaN(d.getTime()).
ValidDates(data) ==
    {data[i]["date"].n : i \in {j \in 1..Len(data) : data[j]["date"].k = "date"}}

\* The ages populateAgeRange keeps: a !== null && !isNaN(a).
ValidAges(data) ==
    {data[i]["age"].n : i \in {j \in 1..Len(data) : data[j]["age"].k = "num"}}

\* Math.floor and Math.ceil of an age kept in 1/AgeDen years.
FloorAge(n) == n \div AgeDen
CeilAge(n) == (n + AgeDen - 1) \div AgeDen

\* Value sanitization of an <input type=range> with step 1.
ClampSlider(v, lo, hi) ==
    IF hi < lo THEN lo ELSE IF v < lo THEN lo ELSE IF v > hi THEN hi ELSE v

\* Filters.populateDateRange: the date inputs and the original range after it
\* ran on data.  A date input value is <<>> ('') or <<d>>, the text YYYY-MM-DD
\* of calendar day d; an original range that was never set (null) is <<>>.
\* (The function also writes the two dates to Filters.state; readFilterState
\* overwrites them before applyFilters reads them.)
PopulateDateRange(data, zone, d, orig) ==
    IF ValidDates(data) = {} THEN [dom |-> d, orig |-> orig]
    ELSE LET minDate == Min(ValidDates(data))
             maxDate == Max(ValidDates(data))
             minDateStr == <<LocalDay(minDate, zone)>>
             maxDateStr == <<LocalDay(maxDate, zone)>>
         IN [dom |-> [d EXCEPT !.dateStart = minDateStr, !.dateEnd = maxDateStr],
             orig |-> [orig EXCEPT !.dateMin = minDateStr, !.dateMax = maxDateStr]]

\* populateAgeRange with the minimum rounded up instead of down.
PopulateAgeRangeCeilMin(data, d, orig) ==
    IF ValidAges(data) = {} THEN [dom |-> d, orig |-> orig]
    ELSE LET minAge == CeilAge(Min(ValidAges(data)))
             maxAge == CeilAge(Max(ValidAges(data)))
         IN [dom |-> [d EXCEPT !.ageLo = minAge, !.ageHi = maxAge,
                               !.ageMin = minAge, !.ageMax = maxAge],
             orig |-> [orig EXCEPT !.ageMin = minAge, !.ageMax = maxAge]]

\* Filters.populateAgeRange: the scale (ageLo, ageHi) and the values of the two
\* sliders, and the original range.
PopulateAgeRange(data, d, orig) ==
    IF ValidAges(data) = {} THEN [dom |-> d, orig |-> orig]
    ELSE LET minAge == FloorAge(Min(ValidAges(data)))
             maxAge == CeilAge(Max(ValidAges(data)))
         IN [dom |-> [d EXCEPT !.ageLo = minAge, !.ageHi = maxAge,
                               !.ageMin = minAge, !.ageMax = maxAge],
             orig |-> [orig EXCEPT !.ageMin = minAge, !.ageMax = maxAge]]

\* Filters.populateFilters: six fresh widgets (nothing selected), then the
\* date range, then the age range.
NoSelection == [f \in FilterFields |-> <<>>]

PopulateFilters(data, zone, d, orig) ==
    LET p1 == PopulateDateRange(data, zone, d, orig)
        p2 == PopulateAgeRange(data, p1.dom, p1.orig)
    IN [sel |-> NoSelection, dom |-> p2.dom, orig |-> p2.orig]

\* Filters.readFilterState: Filters.state as read from the widgets.
ReadFilterState(sel, d, zone) ==
    [companies |-> sel["company"],
     purposes |-> sel["purpose"],
     months |-> sel["month"],
     sexes |-> sel["sex"],
     labels |-> sel["label"],
     findings |-> sel["finding"],
     dateStart |-> IF d.dateStart # <<>>
                   THEN DateAt(StartOfLocalDay(d.dateStart[1], zone)) ELSE Null,
     dateEnd |-> IF d.dateEnd # <<>>
                 THEN DateAt(EndOfLocalDay(d.dateEnd[1], zone)) ELSE Null,
     ageMin |-> d.ageMin,
     ageMax |-> d.ageMax]

\* The accepted-value check comparing the raw value, without String().
FieldRejectsUncoerced(accepted, v) ==
    Len(accepted) > 0 /\ ~(v.k = "str" /\ Includes(accepted, v.s))

\* One accepted-value check of applyFilters: true when the row is rejected,
\*   if (state.xs.length > 0) { if (!state.xs.includes(String(row[col]))) return false; }
FieldRejects(accepted, v) == Len(accepted) > 0 /\ ~Includes(accepted, String(v))

\* The date range check: true when the row is rejected.  A comparison with an
\* invalid Date (NaN) is false.
DateRejects(rowDate, st) ==
    /\ Truthy(st.dateStart) /\ Truthy(st.dateEnd)
    /\ IsDateObj(rowDate)
    /\ rowDate.k = "date"
    /\ (rowDate.n < st.dateStart.n \/ rowDate.n > st.dateEnd.n)

\* The age range check with both bounds exclusive.
AgeRejectsAtBounds(age, st) ==
    /\ age.k = "num"
    /\ (age.n <= st.ageMin * AgeDen \/ age.n >= st.ageMax * AgeDen)

\* The age range check: true when the row is rejected.
AgeRejects(age, st) ==
    /\ age.k = "num"
    /\ (age.n < st.ageMin * AgeDen \/ age.n > st.ageMax * AgeDen)

\* The callback of data.filter in Filters.applyFilters: each check returns
\* false at once; the row is kept when no check did.
RowPasses(row, st) ==
    IF FieldRejects(st.companies, row["company"]) THEN FALSE
    ELSE IF FieldRejects(st.purposes, row["purpose"]) THEN FALSE
    ELSE IF FieldRejects(st.months, row["month"]) THEN FALSE
    ELSE IF FieldRejects(st.sexes, row["sex"]) THEN FALSE
    ELSE IF FieldRejects(st.labels, row["label"]) THEN FALSE
    ELSE IF FieldRejects(st.findings, row["finding"]) THEN FALSE
    ELSE IF DateRejects(row["date"], st) THEN FALSE
    ELSE IF AgeRejects(row["age"], st) THEN FALSE
    ELSE TRUE

\* Filters.applyFilters, given the state readFilterState has just read.
ApplyFilters(data, st) ==
    LET Keep(row) == RowPasses(row, st)
    IN SelectSeq(data, Keep)

\* Filters.clearFilters: the widgets after a reset.
ClearFilters(d, orig) ==
    [sel |-> NoSelection,
     dom |-> [d EXCEPT
        !.dateStart = IF orig.dateMin # <<>> THEN orig.dateMin ELSE d.dateStart,
        !.dateEnd = IF orig.dateMax # <<>> THEN orig.dateMax ELSE d.dateEnd,
        !.ageMin = ClampSlider(orig.ageMin, d.ageLo, d.ageHi),
        !.ageMax = ClampSlider(orig.ageMax, d.ageLo, d.ageHi)]]

\* --------------------------------------------------------- DataProcessor
\* getUniquePatients without the filter that drops the empty identifiers.
GetUniquePatientsUnfiltered(data) ==
    IF Len(data) = 0 THEN 0
    ELSE LET Id(row) == row["employee"]
         IN Cardinality(Range([i \in 1..Len(data) |-> Id(data[i])]))

\* DataProcessor.getUniquePatients: 0 for no data, else the size of the Set of
\* the truthy identifiers.
GetUniquePatients(data) ==
    IF Len(data) = 0 THEN 0
    ELSE LET Id(row) == row["employee"]
             ids == SelectSeq([i \in 1..Len(data) |-> Id(data[i])], Truthy)
         IN Cardinality(Range(ids))

\* A plain object used as a map ({} with obj[key] = ...): its own string
\* keys paired with their values, in the order the keys were first written.
ObjHas(obj, key) == \E i \in 1..Len(obj) : obj[i].key = key

ObjGet(obj, key) == obj[CHOOSE i \in 1..Len(obj) : obj[i].key = key].val

\* obj[key] = val
ObjPut(obj, key, val) ==
    IF ObjHas(obj, key)
    THEN [i \in 1..Len(obj) |-> IF obj[i].key = key THEN [key |-> key, val |-> val]
                                ELSE obj[i]]
    ELSE Append(obj, [key |-> key, val |-> val])

\* A key that is the canonical text of an array index ("0", "1", ...): an
\* object enumerates such keys first, in ascending numeric order.
IndexKeys == {NumStr(i) : i \in 0..3}
IsIndexKey(key) == key \in IndexKeys
KeyIndex(key) == CHOOSE i \in 0..3 : NumStr(i) = key

\* Object.entries(obj): the integer-like keys in ascending numeric order,
\* then the other keys in the order of their creation.
ObjectEntries(obj) ==
    LET IsIdx(e) == IsIndexKey(e.key)
        NotIdx(e) == ~IsIndexKey(e.key)
        idx == SelectSeq(obj, IsIdx)
        Rank(e) == Cardinality({j \in 1..Len(idx) : KeyIndex(idx[j].key) < KeyIndex(e.key)})
        sortedIdx == [r \in 1..Len(idx) |->
                        idx[CHOOSE j \in 1..Len(idx) : Rank(idx[j]) = r - 1]]
    IN sortedIdx \o SelectSeq(obj, NotIdx)

\* entries.sort((a, b) => b.count - a.count): the sort is stable, so an entry
\* goes after every entry placed before it whose count is not smaller.
SortByCountDesc(entries) ==
    LET Insert(sorted, e) ==
            LET at == Cardinality({j \in 1..Len(sorted) : sorted[j].count >= e.count})
            IN SubSeq(sorted, 1, at) \o <<e>> \o SubSeq(sorted, at + 1, Len(sorted))
        f[i \in 0..Len(entries)] ==
            IF i = 0 THEN <<>> ELSE Insert(f[i - 1], entries[i])
    IN f[Len(entries)]

\* A slice that keeps one entry more.
SliceOneMore(seq, topN) == SubSeq(seq, 1, IF topN + 1 < Len(seq) THEN topN + 1 ELSE Len(seq))

\* array.slice(0, topN) for topN >= 0
Slice(seq, topN) == SubSeq(seq, 1, IF topN < Len(seq) THEN topN ELSE Len(seq))

\* counts[key] = (counts[key] || 0) + 1 for each key of a list, in its order.
Tally(keys) ==
    LET f[i \in 0..Len(keys)] ==
            IF i = 0 THEN <<>>
            ELSE LET old == IF ObjHas(f[i - 1], keys[i]) THEN ObjGet(f[i - 1], keys[i]) ELSE 0
                 IN ObjPut(f[i - 1], keys[i], old + 1)
    IN f[Len(keys)]

\* Object.entries(counts).map(([key, count]) => ({ key, count }))
CountEntries(counts) ==
    LET ents == ObjectEntries(counts)
    IN [i \in 1..Len(ents) |-> [key |-> ents[i].key, count |-> ents[i].val]]

\* The texts of a column over the rows whose value is truthy (the property
\* key a value is stored under is String(value)).
TruthyKeys(data, column) ==
    LET Has(row) == Truthy(row[column])
        rows == SelectSeq(data, Has)
    IN [i \in 1..Len(rows) |-> String(rows[i][column])]

\* The texts of a column with the falsy values under their own text.
KeysOrOwnText(data, column, placeholder) ==
    [i \in 1..Len(data) |-> String(data[i][column])]

\* The texts of a column with a placeholder for the falsy values:
\*   row[column] || placeholder
KeysOr(data, column, placeholder) ==
    [i \in 1..Len(data) |->
        IF Truthy(data[i][column]) THEN String(data[i][column]) ELSE placeholder]

\* DataProcessor.getTopFindings
GetTopFindings(data, topN) ==
    Slice(SortByCountDesc(CountEntries(Tally(TruthyKeys(data, "finding")))), topN)

\* DataProcessor.getICDDistribution
GetICDDistribution(data, topN) ==
    Slice(SortByCountDesc(CountEntries(Tally(KeysOr(data, "icd", "No ICD")))), topN)

\* DataProcessor.getLabelDistribution
GetLabelDistribution(data, topN) ==
    Slice(SortByCountDesc(CountEntries(Tally(KeysOr(data, "label", "Unclassified")))), topN)

\* A grouping that adds every identifier, the empty ones too.
GroupPatientsAll(keys, rows) ==
    LET f[i \in 0..Len(keys)] ==
            IF i = 0 THEN <<>>
            ELSE LET old == IF ObjHas(f[i - 1], keys[i]) THEN ObjGet(f[i - 1], keys[i]) ELSE {}
                 IN ObjPut(f[i - 1], keys[i], old \cup {rows[i]["employee"]})
    IN f[Len(keys)]

\* The grouping loop of the distributions by patient, over the rows as
\* (key, row) pairs:
\*   if (!grouped[key]) grouped[key] = new Set();
\*   if (row[EMPLOYEE]) grouped[key].add(row[EMPLOYEE]);
GroupPatients(keys, rows) ==
    LET f[i \in 0..Len(keys)] ==
            IF i = 0 THEN <<>>
            ELSE LET old == IF ObjHas(f[i - 1], keys[i]) THEN ObjGet(f[i - 1], keys[i]) ELSE {}
                     id == rows[i]["employee"]
                 IN ObjPut(f[i - 1], keys[i], IF Truthy(id) THEN old \cup {id} ELSE old)
    IN f[Len(keys)]

\* Object.entries(grouped).map(([key, patients]) => ({ key, count: patients.size }))
PatientEntries(grouped) ==
    LET ents == ObjectEntries(grouped)
    IN [i \in 1..Len(ents) |-> [key |-> ents[i].key, count |-> Cardinality(ents[i].val)]]

\* The rows whose value in a column is truthy (if (!company) return;).
RowsWith(data, column) ==
    LET Has(row) == Truthy(row[column])
    IN SelectSeq(data, Has)

\* DataProcessor.getCompanyDistribution
GetCompanyDistribution(data, topN) ==
    LET rows == RowsWith(data, "company")
    IN Slice(SortByCountDesc(PatientEntries(
                GroupPatients(TruthyKeys(data, "company"), rows))), topN)

\* DataProcessor.getPurposeDistribution
GetPurposeDistribution(data, topN) ==
    LET rows == RowsWith(data, "purpose")
    IN Slice(SortByCountDesc(PatientEntries(
                GroupPatients(TruthyKeys(data, "purpose"), rows))), topN)

\* DataProcessor.getSexDistribution: the entries as Object.entries lists them;
\* the function does not sort.
GetSexDistribution(data) ==
    PatientEntries(GroupPatients(KeysOr(data, "sex", "Unknown"), data))

\* The bracket order with Unknown in front.
AgeBracketsUnknownFirst ==
    <<"Unknown", "<18", "18-24", "25-34", "35-44", "45-54", "55-64", "65-74", "75-84",
      "85+">>

\* AGE_BRACKETS
AgeBrackets ==
    <<"<18", "18-24", "25-34", "35-44", "45-54", "55-64", "65-74", "75-84", "85+",
      "Unknown">>

\* isNaN(age) for a value that is not null or undefined: a number is none,
\* nor is a text that Number() reads as a number (a numeric text, or '' which
\* it reads as 0).
AgeIsNaN(age) == ~(age.k = "num" \/ (age.k = "str" /\ age.s \in {"numeric", ""}))

\* categorizeAgeBracket rounding the age up instead of down.
CategorizeAgeBracketCeil(age) ==
    IF age.k = "null" \/ age.k = "undef" \/ AgeIsNaN(age) THEN "Unknown"
    ELSE LET a == (age.n + AgeDen - 1) \div AgeDen
         IN IF a < 18 THEN "<18"
            ELSE IF a <= 24 THEN "18-24"
            ELSE IF a <= 34 THEN "25-34"
            ELSE IF a <= 44 THEN "35-44"
            ELSE IF a <= 54 THEN "45-54"
            ELSE IF a <= 64 THEN "55-64"
            ELSE IF a <= 74 THEN "65-74"
            ELSE IF a <= 84 THEN "75-84"
            ELSE "85+"

\* DataProcessor.categorizeAgeBracket
CategorizeAgeBracket(age) ==
    IF age.k = "null" \/ age.k = "undef" \/ AgeIsNaN(age) THEN "Unknown"
    ELSE LET a == age.n \div AgeDen
         IN IF a < 18 THEN "<18"
            ELSE IF a <= 24 THEN "18-24"
            ELSE IF a <= 34 THEN "25-34"
            ELSE IF a <= 44 THEN "35-44"
            ELSE IF a <= 54 THEN "45-54"
            ELSE IF a <= 64 THEN "55-64"
            ELSE IF a <= 74 THEN "65-74"
            ELSE IF a <= 84 THEN "75-84"
            ELSE "85+"

\* Every row with a truthy identifier, repeated patients included.
FirstRowsRepeated(data) ==
    LET Has(row) == Truthy(row["employee"])
    IN SelectSeq(data, Has)

\* The rows getAgeBracketDistribution and getAgeDistribution look at: the
\* first row of every truthy identifier.
\*   if (!employee || seen.has(employee)) return; seen.add(employee);
FirstRows(data) ==
    LET f[i \in 0..Len(data)] ==
            IF i = 0 THEN [seen |-> {}, rows |-> <<>>]
            ELSE LET employee == data[i]["employee"]
                 IN IF ~Truthy(employee) \/ employee \in f[i - 1].seen THEN f[i - 1]
                    ELSE [seen |-> f[i - 1].seen \cup {employee},
                          rows |-> Append(f[i - 1].rows, data[i])]
    IN f[Len(data)].rows

\* DataProcessor.getAgeBracketDistribution
GetAgeBracketDistribution(data) ==
    LET first == FirstRows(data)
        grouped == Tally([i \in 1..Len(first) |-> CategorizeAgeBracket(first[i]["age"])])
        Counted(bracket) == ObjHas(grouped, bracket) /\ ObjGet(grouped, bracket) # 0
        kept == SelectSeq(AgeBrackets, Counted)
    IN [i \in 1..Len(kept) |-> [bracket |-> kept[i], count |-> ObjGet(grouped, kept[i])]]

\* ------------------------------------------- DataProcessor: the rollups
\* A rollup by day or month ends in one of several ways: it raises (threw),
\* or it returns a list of entries.  Each operator below is the set of the
\* outcomes a call can have.  An entry's group key is its field key (the
\* field date or month of the code): a day is the number of the UTC day that
\* formatDateKey prints, a month is [valid |-> TRUE, m |-> number of the local
\* month], or NaNMonth for the text "NaN-NaN" that formatMonthKey prints for
\* an invalid Date.
Returned(entries) == [threw |-> FALSE, entries |-> entries]
Raised == [threw |-> TRUE, entries |-> <<>>]

NaNMonth == [valid |-> FALSE, m |-> 0]

\* DataProcessor.formatMonthKey (local year and month)
FormatMonthKey(date, zone) ==
    IF date.k = "date"
    THEN [valid |-> TRUE, m |-> LocalDay(date.n, zone) \div DaysPerMonth]
    ELSE NaNMonth

\* DataProcessor.formatDateKey of a valid Date: toISOString().split('T')[0],
\* the calendar day in UTC.
FormatDateKey(date) == UtcDay(date.n)

\* Export.exportFilteredData writes a Date as toISOString().split('T')[0].
ExportDateKey(date) == UtcDay(date.n)

\* The rows a rollup groups: if (!date) return;
DatedRows(data) == RowsWith(data, "date")

\* formatDateKey raises a RangeError (toISOString) on an invalid Date.
DayKeyRaises(data) ==
    \E i \in 1..Len(DatedRows(data)) : DatedRows(data)[i]["date"].k = "baddate"

\* The day keys of the dated rows, when none raises.
DayKeys(data) ==
    [i \in 1..Len(DatedRows(data)) |-> FormatDateKey(DatedRows(data)[i]["date"])]

MonthKeys(data, zone) ==
    [i \in 1..Len(DatedRows(data)) |-> FormatMonthKey(DatedRows(data)[i]["date"], zone)]

\* entries.sort((a, b) => ord(a) - ord(b)) for entries with the numbers ord:
\* stable, ascending.
SortAscBy(entries, ord) ==
    LET Insert(sorted, j) ==
            LET at == Cardinality({k \in 1..Len(sorted) : ord[sorted[k]] <= ord[j]})
            IN SubSeq(sorted, 1, at) \o <<j>> \o SubSeq(sorted, at + 1, Len(sorted))
        f[i \in 0..Len(entries)] == IF i = 0 THEN <<>> ELSE Insert(f[i - 1], i)
    IN [i \in 1..Len(entries) |-> entries[f[Len(entries)][i]]]

\* Every order of a list.
AllOrders(seq) ==
    {[i \in 1..Len(seq) |-> seq[p[i]]] :
        p \in {q \in [1..Len(seq) -> 1..Len(seq)] :
                 \A i, j \in 1..Len(seq) : q[i] = q[j] => i = j}}

\* .sort((a, b) => new Date(a.date) - new Date(b.date)) of day entries.
SortByDay(entries) == SortAscBy(entries, [i \in 1..Len(entries) |-> entries[i].key])

\* .sort((a, b) => new Date(a.month + '-01') - new Date(b.month + '-01')):
\* with the key "NaN-NaN" the comparator returns NaN and is no consistent
\* order any more, so the resulting order is left to the engine.
SortByMonth(entries) ==
    IF \A i \in 1..Len(entries) : entries[i].key.valid
    THEN {SortAscBy(entries, [i \in 1..Len(entries) |-> entries[i].key.m])}
    ELSE AllOrders(entries)

\* A loop that counts a record only when it carries an identifier.
GroupStatsIdentified(keys, rows) ==
    LET f[i \in 0..Len(keys)] ==
            IF i = 0 THEN <<>>
            ELSE LET old == IF ObjHas(f[i - 1], keys[i]) THEN ObjGet(f[i - 1], keys[i])
                            ELSE [records |-> 0, patients |-> {}]
                     id == rows[i]["employee"]
                 IN ObjPut(f[i - 1], keys[i],
                        IF Truthy(id)
                        THEN [records |-> old.records + 1, patients |-> old.patients \cup {id}]
                        ELSE old)
    IN f[Len(keys)]

\* The loop of getDailyStats:
\*   grouped[key].records++; if (row[EMPLOYEE]) grouped[key].patients.add(...)
GroupStats(keys, rows) ==
    LET f[i \in 0..Len(keys)] ==
            IF i = 0 THEN <<>>
            ELSE LET old == IF ObjHas(f[i - 1], keys[i]) THEN ObjGet(f[i - 1], keys[i])
                            ELSE [records |-> 0, patients |-> {}]
                     id == rows[i]["employee"]
                 IN ObjPut(f[i - 1], keys[i],
                        [records |-> old.records + 1,
                         patients |-> IF Truthy(id) THEN old.patients \cup {id}
                                      ELSE old.patients])
    IN f[Len(keys)]

\* The loop of getFindingsPerDay and getFindingsPerMonth:
\*   if (finding) { grouped[key].total++; grouped[key].unique.add(finding); }
GroupFindings(keys, rows) ==
    LET f[i \in 0..Len(keys)] ==
            IF i = 0 THEN <<>>
            ELSE LET old == IF ObjHas(f[i - 1], keys[i]) THEN ObjGet(f[i - 1], keys[i])
                            ELSE [total |-> 0, unique |-> {}]
                     finding == rows[i]["finding"]
                 IN ObjPut(f[i - 1], keys[i],
                        IF Truthy(finding)
                        THEN [total |-> old.total + 1, unique |-> old.unique \cup {finding}]
                        ELSE old)
    IN f[Len(keys)]

\* The entries of a grouping by day or month (no such key is integer-like,
\* so Object.entries lists them in the order of their creation).
PatientCounts(grouped) ==
    [i \in 1..Len(grouped) |->
        [key |-> grouped[i].key, count |-> Cardinality(grouped[i].val)]]

StatsEntries(grouped) ==
    [i \in 1..Len(grouped) |->
        [key |-> grouped[i].key, totalRecords |-> grouped[i].val.records,
         uniquePatients |-> Cardinality(grouped[i].val.patients)]]

FindingEntries(grouped) ==
    [i \in 1..Len(grouped) |->
        [key |-> grouped[i].key, total |-> grouped[i].val.total,
         unique |-> Cardinality(grouped[i].val.unique)]]

\* DataProcessor.getPatientsPerDay
GetPatientsPerDay(data) ==
    IF DayKeyRaises(data) THEN {Raised}
    ELSE {Returned(SortByDay(PatientCounts(GroupPatients(DayKeys(data), DatedRows(data)))))}

\* DataProcessor.getPatientsPerMonth
GetPatientsPerMonth(data, zone) ==
    {Returned(e) : e \in SortByMonth(PatientCounts(
                            GroupPatients(MonthKeys(data, zone), DatedRows(data))))}

\* DataProcessor.getDailyStats
GetDailyStats(data) ==
    IF DayKeyRaises(data) THEN {Raised}
    ELSE {Returned(SortByDay(StatsEntries(GroupStats(DayKeys(data), DatedRows(data)))))}

\* DataProcessor.getFindingsPerDay
GetFindingsPerDay(data) ==
    IF DayKeyRaises(data) THEN {Raised}
    ELSE {Returned(SortByDay(FindingEntries(GroupFindings(DayKeys(data), DatedRows(data)))))}

\* DataProcessor.getFindingsPerMonth
GetFindingsPerMonth(data, zone) ==
    {Returned(e) : e \in SortByMonth(FindingEntries(
                            GroupFindings(MonthKeys(data, zone), DatedRows(data))))}

\* ------------------------------------------- DataProcessor: the weekdays
\* WEEKDAYS
Weekdays == <<"Monday", "Tuesday", "Wednesday", "Thursday", "Friday", "Saturday", "Sunday">>

\* new Date(date).getDay() of a valid Date: 0 for Sunday .. 6 for Saturday,
\* in local time (local day 0 is a Thursday).
GetDay(date, zone) == (LocalDay(date.n, zone) + 4) % 7

\* An index that takes getDay() as it is, Sunday first.
WeekdayIndexSundayFirst(day) == day + 1

\* getDay() === 0 ? 6 : getDay() - 1, as a position of Weekdays
WeekdayIndex(day) == IF day = 0 THEN 7 ELSE day

\* WEEKDAYS[...]: of an invalid Date getDay() is NaN and the element is
\* undefined, which as a property name is "undefined".
WeekdayKey(date, zone) ==
    IF date.k = "date" THEN Weekdays[WeekdayIndex(GetDay(date, zone))] ELSE "undefined"

\* DataProcessor.getWeekdayDistribution
GetWeekdayDistribution(data, zone) ==
    LET rows == DatedRows(data)
        grouped == GroupPatients([i \in 1..Len(rows) |-> WeekdayKey(rows[i]["date"], zone)], rows)
    IN [i \in 1..Len(Weekdays) |->
          [key |-> Weekdays[i],
           count |-> IF ObjHas(grouped, Weekdays[i])
                     THEN Cardinality(ObjGet(grouped, Weekdays[i])) ELSE 0]]

\* ------------------------------------------- DataProcessor: the insights
\* The texts of monthName: `${monthNames[parseInt(month) - 1]} ${year}` names
\* the month of a key; of the key "NaN-NaN" it is "undefined NaN".
MonthName(key) ==
    IF key.valid THEN [text |-> "month", m |-> key.m]
    ELSE [text |-> "undefined NaN", m |-> 0]

NoMonth == [text |-> "N/A", m |-> 0]

\* A reduce that keeps the smaller entry.
ReduceMin(entries, field) ==
    LET f[i \in 1..Len(entries)] ==
            IF i = 1 THEN entries[1]
            ELSE IF entries[i][field] < f[i - 1][field] THEN entries[i] ELSE f[i - 1]
    IN f[Len(entries)]

\* entries.reduce((max, curr) => curr[field] > max[field] ? curr : max) of a
\* list that is not empty
ReduceMax(entries, field) ==
    LET f[i \in 1..Len(entries)] ==
            IF i = 1 THEN entries[1]
            ELSE IF entries[i][field] > f[i - 1][field] THEN entries[i] ELSE f[i - 1]
    IN f[Len(entries)]

\* data.filter(row => { if (!date) return false;
\*                      return this.formatMonthKey(date) === peak.month; })
PeakMonthData(data, zone, month) ==
    LET InPeak(row) == Truthy(row["date"]) /\ FormatMonthKey(row["date"], zone) = month
    IN SelectSeq(data, InPeak)

\* topFindings.length > 0 ? topFindings[0].finding : 'N/A', and the count
TopFindingOf(rows) ==
    LET topFindings == GetTopFindings(rows, 1)
    IN IF Len(topFindings) > 0
       THEN [topFinding |-> topFindings[1].key, count |-> topFindings[1].count]
       ELSE [topFinding |-> "N/A", count |-> 0]

\* DataProcessor.getPeakMonthFinding on one outcome of getFindingsPerMonth
PeakMonthFindingOf(data, zone, monthlyFindings) ==
    IF Len(monthlyFindings) = 0
    THEN [monthName |-> NoMonth, topFinding |-> "N/A", count |-> 0]
    ELSE LET peak == ReduceMax(monthlyFindings, "total")
             top == TopFindingOf(PeakMonthData(data, zone, peak.key))
         IN [monthName |-> MonthName(peak.key), topFinding |-> top.topFinding,
             count |-> top.count]

\* DataProcessor.getPeakMonthFinding: every result it can return
GetPeakMonthFinding(data, zone) ==
    {PeakMonthFindingOf(data, zone, o.entries) : o \in GetFindingsPerMonth(data, zone)}

\* data.filter(row => this.categorizeAgeBracket(row[AGE]) === largest.bracket)
BracketData(data, bracket) ==
    LET InBracket(row) == CategorizeAgeBracket(row["age"]) = bracket
    IN SelectSeq(data, InBracket)

\* brackets.filter(b => b.bracket !== 'Unknown')
ValidBrackets(brackets) ==
    LET Known(b) == b.bracket # "Unknown"
    IN SelectSeq(brackets, Known)

\* DataProcessor.getLargestAgeBracketFinding
GetLargestAgeBracketFinding(data) ==
    LET brackets == GetAgeBracketDistribution(data)
        validBrackets == ValidBrackets(brackets)
    IN IF Len(brackets) = 0 \/ Len(validBrackets) = 0
       THEN [bracket |-> "N/A", topFinding |-> "N/A", count |-> 0]
       ELSE LET largest == ReduceMax(validBrackets, "count")
                top == TopFindingOf(BracketData(data, largest.bracket))
            IN [bracket |-> largest.bracket, topFinding |-> top.topFinding,
                count |-> top.count]

\* ------------------------------------------------------------- App state
VARIABLES
    tz,             \* the browser's zone, in ticks east of UTC
    fullData,       \* App.fullData
    filteredData,   \* App.filteredData
    selected,       \* SearchableSelect.instances[id].selected, per filter field
    dom,            \* the date inputs and the two age sliders
    originalRanges, \* Filters.originalRanges
    fileStatus,     \* class of the #fileStatus element
    pending,        \* number of parses in flight
    lastEvent,      \* the last handler that wrote the data or the widgets:
                    \* "load" (a resolved parse), "filter", "clear"
    toolbar,        \* ChartToolbar's state for the chart companyChart
    inflight        \* the files of the parses in flight, in the order of
                    \* their selection, where a specification follows them

vars == <<tz, fullData, filteredData, selected, dom, originalRanges,
          fileStatus, pending, lastEvent, toolbar, inflight>>

\* ---------------------------------------------------------------- inputs
Zones == {0 - 1, 0, 1}

\* Two moments of the data: the first tick of UTC day 1 and the last tick of
\* UTC day 2.
TickA == TicksPerDay
TickB == 2 * TicksPerDay + (TicksPerDay - 1)

BlankRow == [c \in Columns |-> Undef]

\* The rows a parsed file is made of: a Date object with a fractional age;
\* a date-only ISO text with a numeric identifier and the age as text; an
\* invalid Date object without company; a row with a date-time text in local
\* time, an unreadable age, no identifier and the company text "null".
RowA == [BlankRow EXCEPT !["date"] = DateAt(TickA), !["employee"] = Str("E1"),
            !["age"] = Num(AgeDen + 1), !["company"] = Str("A")]
RowB == [BlankRow EXCEPT !["date"] = StrN("isodate", 2), !["employee"] = Num(2),
            !["age"] = StrN("numeric", 2 * AgeDen), !["company"] = Str("B")]
RowC == [BlankRow EXCEPT !["date"] = BadDate, !["employee"] = Str("E1"),
            !["age"] = Num(2 * AgeDen), !["company"] = Null]
RowD == [BlankRow EXCEPT !["date"] = StrN("localtime", TickB), !["employee"] = Null,
            !["age"] = Str("n/a"), !["company"] = Str("null")]

RowE == [BlankRow EXCEPT !["date"] = Str("n/a"), !["employee"] = Str("E3"),
            !["company"] = Str("A")]

RowUniverse == {RowA, RowB, RowC, RowD, RowE}
\* A file: up to MaxRows different rows of the universe, in any order.
RawFiles ==
    {f \in SeqsUpTo(RowUniverse, MaxRows) :
        \A i, j \in 1..Len(f) : i # j => f[i] # f[j]}

\* What DataLoader.parseFile can resolve with in a browser of each zone.
ParsedFiles == [z \in Zones |-> {ProcessData(rows, z) : rows \in RawFiles}]

FileExts == {"csv", "xlsx", "pdf"}

\* The defaults of Filters.state and Filters.originalRanges, which are the
\* scale of the two sliders before any age was loaded.
DefaultAgeMin == 0
DefaultAgeMax == 100

\* --------------------------------------------------------- ChartToolbar
\* Filters.getTopN with the slider as the page loads it.
DefaultTopN == 15

\* The rows Charts.initAllToolbars hands to ChartToolbar.init for the chart
\* companyChart.
ChartRows(data) == GetCompanyDistribution(data, DefaultTopN)

\* ChartToolbar before the first render cycle: no entry in chartData, no
\* wrapper around the canvas.  The fields:
\*   built     chartData has the entry and a wrapper holds the canvas
\*   data      chartData[chartId].data
\*   active    the table view of the wrapper closest to the canvas has the
\*             class active
\*   shown     the rows in the body of that wrapper's table
\*   left      <<rows>> when a wrapper further out was left with its table
\*             view active and these rows in it, else <<>>
\*   exported  the rows of the last file handed to saveAs
NoToolbar ==
    [built |-> FALSE, data |-> <<>>, active |-> FALSE, shown |-> <<>>,
     left |-> <<>>, exported |-> <<>>]

\* ChartToolbar.init.  It stores the rows.  The parent of the canvas is, from
\* the second call on, the chart-view the call before moved it into, which
\* holds no .chart-toolbar and is no .chart-wrapper: the call builds a new
\* wrapper inside it, chart view active and table empty, and moves the
\* canvas there.  The wrapper around it stays as it was; no handler reaches
\* it again, since all of them start from canvas.closest('.chart-wrapper').
ToolbarInit(tb, rows) ==
    [built |-> TRUE, data |-> rows, active |-> FALSE, shown |-> <<>>,
     left |-> IF tb.left # <<>> THEN tb.left
              ELSE IF tb.built /\ tb.active THEN <<tb.shown>> ELSE <<>>,
     exported |-> tb.exported]

\* ChartToolbar.renderTable
RenderTable(tb) == IF tb.built THEN [tb EXCEPT !.shown = tb.data] ELSE tb

Init ==
    /\ tz \in Zones
    /\ fullData = <<>>
    /\ filteredData = <<>>
    /\ selected = NoSelection
    /\ dom = [dateStart |-> <<>>, dateEnd |-> <<>>,
              ageMin |-> DefaultAgeMin, ageMax |-> DefaultAgeMax,
              ageLo |-> DefaultAgeMin, ageHi |-> DefaultAgeMax]
    /\ originalRanges = [dateMin |-> <<>>, dateMax |-> <<>>,
                         ageMin |-> DefaultAgeMin, ageMax |-> DefaultAgeMax]
    /\ fileStatus = ""
    /\ pending = 0
    /\ lastEvent = "init"
    /\ toolbar = NoToolbar
    /\ inflight = <<>>

\* ------------------------------------------------------------------- App
\* App.refresh raises a RangeError when a record of the data carries an
\* invalid Date: Charts.renderAll starts with renderDailyPatients, which calls
\* getPatientsPerDay, whose formatDateKey calls toISOString on it.
RefreshThrows(data) == \E i \in 1..Len(data) : data[i]["date"].k = "baddate"

\* App.refresh as far as the toolbar goes: Charts.renderAll ends with
\* initAllToolbars, which is not reached when a chart before it raised.
Refresh(data) ==
    toolbar' = IF RefreshThrows(data) THEN toolbar ELSE ToolbarInit(toolbar, ChartRows(data))

\* The new records appended to the old ones instead of replacing them.
StoreDataMerged(old, data) == old \o data

\* this.fullData = data; this.filteredData = data
StoreData(old, data) == data

\* onFilterChange narrowing the previous filtered view instead of filtering
\* the loaded records.
OnFilterChangeOfView(sel, d) ==
    IF Len(fullData) = 0
    THEN UNCHANGED <<filteredData, toolbar>>
    ELSE /\ filteredData' = ApplyFilters(filteredData, ReadFilterState(sel, d, tz))
         /\ Refresh(filteredData')

\* A handler that filters the loaded records and shows the kept ones last
\* record first.
OnFilterChangeReversed(sel, d) ==
    IF Len(fullData) = 0
    THEN UNCHANGED <<filteredData, toolbar>>
    ELSE /\ LET kept == ApplyFilters(fullData, ReadFilterState(sel, d, tz))
            IN filteredData' = [i \in 1..Len(kept) |-> kept[Len(kept) + 1 - i]]
         /\ Refresh(filteredData')

\* App.onFilterChange, run with the widgets as the event left them.
OnFilterChange(sel, d) ==
    IF Len(fullData) = 0
    THEN UNCHANGED <<filteredData, toolbar>>
    ELSE /\ filteredData' = ApplyFilters(fullData, ReadFilterState(sel, d, tz))
         /\ Refresh(filteredData')

\* The change handler of #fileInput up to the await: a file is chosen.  An
\* unsupported extension is rejected by parseFile and the catch block runs.
Selecting(ext, limit) ==
    /\ IF ext \in SupportedExt
       THEN /\ pending < limit
            /\ pending' = pending + 1
            /\ fileStatus' = "loading"
       ELSE /\ pending' = pending
            /\ fileStatus' = "error"
    /\ UNCHANGED <<tz, fullData, filteredData, selected, dom, originalRanges,
                   lastEvent, toolbar>>

SelectFile(ext) == Selecting(ext, MaxPending) /\ UNCHANGED inflight

\* The rest of the handler once the parse resolved with the records of the
\* file.
Resolving(data) ==
    /\ pending > 0
    /\ pending' = pending - 1
    /\ LET p == PopulateFilters(data, tz, dom, originalRanges)
       IN /\ fullData' = StoreData(fullData, data)
          /\ filteredData' = StoreData(filteredData, data)
          /\ selected' = p.sel
          /\ dom' = p.dom
          /\ originalRanges' = p.orig
          /\ fileStatus' = IF RefreshThrows(filteredData') THEN "error" ELSE "success"
          /\ Refresh(filteredData')
    /\ lastEvent' = "load"
    /\ UNCHANGED tz

ParseResolved(data) == Resolving(data) /\ UNCHANGED inflight

\* The parse rejected (Papa's error callback, FileReader.onerror, XLSX.read).
ParseRejected ==
    /\ pending > 0
    /\ pending' = pending - 1
    /\ fileStatus' = "error"
    /\ UNCHANGED <<tz, fullData, filteredData, selected, dom, originalRanges,
                   lastEvent, toolbar, inflight>>

\* SearchableSelect.toggleOption on an option the widget lists, then onChange.
ToggleOption(f, v) ==
    /\ v \in GetUniqueValues(fullData, f)
    /\ LET cur == selected[f]
           IsNot(x) == x # v
           new == IF Includes(cur, v) THEN SelectSeq(cur, IsNot)
                  ELSE Append(cur, v)
           sel == [selected EXCEPT ![f] = new]
       IN /\ selected' = sel
          /\ OnFilterChange(sel, dom)
    /\ lastEvent' = "filter"
    /\ UNCHANGED <<tz, fullData, dom, originalRanges, fileStatus, pending, inflight>>

\* SearchableSelect.clearAll (the widget's own clear button), then onChange.
ClearAll(f) ==
    /\ selected[f] # <<>>
    /\ LET sel == [selected EXCEPT ![f] = <<>>]
       IN /\ selected' = sel
          /\ OnFilterChange(sel, dom)
    /\ lastEvent' = "filter"
    /\ UNCHANGED <<tz, fullData, dom, originalRanges, fileStatus, pending, inflight>>

\* A change event of a date input or of an age slider.
ChangeInput(d) ==
    /\ d # dom
    /\ dom' = d
    /\ OnFilterChange(selected, d)
    /\ lastEvent' = "filter"
    /\ UNCHANGED <<tz, fullData, selected, originalRanges, fileStatus, pending,
                   inflight>>

\* What a user can enter in a date input: nothing, or a day the picker
\* offers, which is a day between the input's min and max attributes (the
\* original range); without them, one of two days.
DateValues ==
    {<<>>} \cup
    {<<d>> : d \in IF originalRanges.dateMin = <<>>
                   THEN {UtcDay(TickA), UtcDay(TickB)}
                   ELSE originalRanges.dateMin[1]..originalRanges.dateMax[1]}

\* Where a user can drag a slider: to an end of its scale, or to a whole year
\* of the ages of the loaded data.
SliderValues ==
    {dom.ageLo, dom.ageHi} \cup
    {v \in dom.ageLo..dom.ageHi :
        /\ ValidAges(fullData) # {}
        /\ FloorAge(Min(ValidAges(fullData))) <= v
        /\ v <= CeilAge(Max(ValidAges(fullData)))}

ChangeDateStart == \E v \in DateValues : ChangeInput([dom EXCEPT !.dateStart = v])
ChangeDateEnd == \E v \in DateValues : ChangeInput([dom EXCEPT !.dateEnd = v])
ChangeAgeMin == \E v \in SliderValues : ChangeInput([dom EXCEPT !.ageMin = v])
ChangeAgeMax == \E v \in SliderValues : ChangeInput([dom EXCEPT !.ageMax = v])

\* The click handler of #clearFilters: clearFilters(), then onFilterChange().
ClearClick ==
    /\ LET c == ClearFilters(dom, originalRanges)
       IN /\ selected' = c.sel
          /\ dom' = c.dom
          /\ OnFilterChange(c.sel, c.dom)
    /\ lastEvent' = "clear"
    /\ UNCHANGED <<tz, fullData, originalRanges, fileStatus, pending, inflight>>

Next ==
    \/ \E ext \in FileExts : SelectFile(ext)
    \/ \E data \in ParsedFiles[tz] : ParseResolved(data)
    \/ ParseRejected
    \/ \E f \in FilterFields : \E v \in GetUniqueValues(fullData, f) : ToggleOption(f, v)
    \/ \E f \in FilterFields : ClearAll(f)
    \/ ChangeDateStart
    \/ ChangeDateEnd
    \/ ChangeAgeMin
    \/ ChangeAgeMax
    \/ ClearClick

Spec == Init /\ [][Next]_vars

\* ------------------------------------------------- the six select filters
\* A second specification for the six accepted-value filters: a file whose
\* rows differ in one filter column each has just been loaded, and the user
\* works the six select widgets and the Clear button.
FormBase ==
    [BlankRow EXCEPT !["date"] = DateAt(TickA), !["employee"] = Str("E1"),
        !["age"] = Num(AgeDen), !["company"] = Str("A"), !["purpose"] = Str("P"),
        !["month"] = Str("January"), !["sex"] = Str("M"), !["label"] = Str("L"),
        !["finding"] = Str("F")]

FormRows ==
    {FormBase,
     [FormBase EXCEPT !["company"] = Null],
     [FormBase EXCEPT !["purpose"] = Undef],
     [FormBase EXCEPT !["month"] = Str("February")],
     [FormBase EXCEPT !["sex"] = Str("")],
     [FormBase EXCEPT !["label"] = Num(1)],
     [FormBase EXCEPT !["finding"] = Str("G")]}

FormFiles == {ProcessData(rows, 0) : rows \in SeqsUpTo(FormRows, MaxRows + 1) \ {<<>>}}

FilterInit ==
    /\ tz = 0
    /\ fullData \in FormFiles
    /\ filteredData = fullData
    /\ LET p == PopulateFilters(fullData, tz,
                    [dateStart |-> <<>>, dateEnd |-> <<>>,
                     ageMin |-> DefaultAgeMin, ageMax |-> DefaultAgeMax,
                     ageLo |-> DefaultAgeMin, ageHi |-> DefaultAgeMax],
                    [dateMin |-> <<>>, dateMax |-> <<>>,
                     ageMin |-> DefaultAgeMin, ageMax |-> DefaultAgeMax])
       IN /\ selected = p.sel
          /\ dom = p.dom
          /\ originalRanges = p.orig
    /\ fileStatus = "success"
    /\ pending = 0
    /\ lastEvent = "load"
    /\ toolbar = ToolbarInit(NoToolbar, ChartRows(fullData))
    /\ inflight = <<>>

FilterNext ==
    \/ \E f \in FilterFields : \E v \in GetUniqueValues(fullData, f) : ToggleOption(f, v)
    \/ \E f \in FilterFields : ClearAll(f)
    \/ ClearClick

FilterSpec == FilterInit /\ [][FilterNext]_vars

\* ------------------------------------------------- the aggregate views
\* A third specification for the aggregates App.refresh renders from the
\* filtered view: a file of visits has just been loaded, and the user narrows
\* the view with the company select and the Clear button.
\* The visits: two patients on the first tick of day 1, one on the last tick
\* of day 2, with ages on both sides of a bracket limit, a finding and an ICD
\* code that are numbers, and missing cells; a row without identifier; a
\* second visit of patient E1 with an invalid Date and another age; a visit
\* of patient E2 with no date, no age and no sex.
VisitA ==
    [BlankRow EXCEPT !["date"] = DateAt(TickA), !["employee"] = Str("E1"),
        !["age"] = Num(18 * AgeDen - 1), !["sex"] = Str("F"), !["company"] = Str("A"),
        !["purpose"] = Str("P"), !["finding"] = Str("flu"), !["icd"] = Str("J06"),
        !["label"] = Str("L1")]
VisitB ==
    [BlankRow EXCEPT !["date"] = DateAt(TickB), !["employee"] = Str("E2"),
        !["age"] = Num(18 * AgeDen), !["sex"] = Str("M"), !["company"] = Str("B"),
        !["purpose"] = Str("Q"), !["finding"] = Num(2), !["icd"] = Num(1)]
VisitC ==
    [BlankRow EXCEPT !["date"] = DateAt(TickA), !["employee"] = Str("E3"),
        !["age"] = Num(24 * AgeDen + 1), !["sex"] = Str("M"), !["company"] = Str("B"),
        !["purpose"] = Str("P"), !["finding"] = Str("flu"), !["icd"] = Null,
        !["label"] = Str("L1")]
VisitD ==
    [BlankRow EXCEPT !["date"] = DateAt(TickB), !["employee"] = Null,
        !["age"] = Str("n/a"), !["sex"] = Null, !["company"] = Str("A"),
        !["finding"] = Str(""), !["icd"] = Str(""), !["label"] = Str("")]
VisitE ==
    [BlankRow EXCEPT !["date"] = BadDate, !["employee"] = Str("E1"),
        !["age"] = Num(85 * AgeDen), !["sex"] = Str("F"), !["company"] = Str("A"),
        !["purpose"] = Str("Q"), !["finding"] = Str("cough"), !["icd"] = Str("J06"),
        !["label"] = Str("L2")]
VisitF ==
    [BlankRow EXCEPT !["date"] = Str("n/a"), !["employee"] = Str("E2"),
        !["company"] = Str("B"), !["finding"] = Str("cough")]

Visits == {VisitA, VisitB, VisitC, VisitD, VisitE, VisitF}

VisitFiles ==
    [z \in Zones |-> {ProcessData(rows, z) : rows \in SeqsUpTo(Visits, MaxRows + 1)}]

\* The values of the Top N slider.
TopNs == 0..(MaxRows + 2)

ViewInit ==
    /\ tz \in Zones
    /\ fullData \in VisitFiles[tz]
    /\ filteredData = fullData
    /\ LET p == PopulateFilters(fullData, tz,
                    [dateStart |-> <<>>, dateEnd |-> <<>>,
                     ageMin |-> DefaultAgeMin, ageMax |-> DefaultAgeMax,
                     ageLo |-> DefaultAgeMin, ageHi |-> DefaultAgeMax],
                    [dateMin |-> <<>>, dateMax |-> <<>>,
                     ageMin |-> DefaultAgeMin, ageMax |-> DefaultAgeMax])
       IN /\ selected = p.sel
          /\ dom = p.dom
          /\ originalRanges = p.orig
    /\ fileStatus = IF RefreshThrows(fullData) THEN "error" ELSE "success"
    /\ pending = 0
    /\ lastEvent = "load"
    /\ toolbar = IF RefreshThrows(fullData) THEN NoToolbar
                 ELSE ToolbarInit(NoToolbar, ChartRows(fullData))
    /\ inflight = <<>>

ViewNext ==
    \/ \E v \in GetUniqueValues(fullData, "company") : ToggleOption("company", v)
    \/ ClearAll("company")
    \/ ClearClick

ViewSpec == ViewInit /\ [][ViewNext]_vars

\* ============================================================== claims
\* The criteria the next applyFilters works with.
Criteria == ReadFilterState(selected, dom, tz)

\* The filtered view was computed by applyFilters from the loaded records
\* under the widgets as they are now.
Fresh == lastEvent \in {"filter", "clear"} /\ Len(fullData) > 0

\* The three kinds of constraint as the specification words them.
FieldAccepts(f, r) == selected[f] = <<>> \/ String(r[f]) \in Range(selected[f])
AllFieldsAccept(r) == \A f \in FilterFields : FieldAccepts(f, r)
DateAccepts(r) ==
    \/ dom.dateStart = <<>>
    \/ dom.dateEnd = <<>>
    \/ r["date"].k # "date"
    \/ /\ dom.dateStart[1] <= LocalDay(r["date"].n, tz)
       /\ LocalDay(r["date"].n, tz) <= dom.dateEnd[1]
AgeAccepts(r) ==
    \/ r["age"].k # "num"
    \/ /\ dom.ageMin * AgeDen <= r["age"].n
       /\ r["age"].n <= dom.ageMax * AgeDen
InView(r) == r \in Range(filteredData)

\* The widgets are as populate leaves them for the loaded records.
Pristine ==
    LET p == PopulateFilters(fullData, tz, dom, originalRanges)
    IN selected = p.sel /\ dom = p.dom /\ originalRanges = p.orig

\* C1: right after populate(records), and whenever the widgets are as populate
\* leaves them for the loaded records (nothing selected, date and age range at
\* the original ranges of those records), applyFilters(records) returns the
\* records themselves, in their order.
C1_Identity ==
    /\ lastEvent = "load" => Pristine
    /\ Pristine => ApplyFilters(fullData, Criteria) = fullData

\* A load of two records that has set both ranges, one age not a whole year.
C1_Witness ==
    /\ lastEvent = "load"
    /\ Len(fullData) >= 2
    /\ ValidDates(fullData) # {}
    /\ \E n \in ValidAges(fullData) : FloorAge(n) # CeilAge(n)
    /\ dom.dateStart # <<>> /\ dom.dateEnd # <<>>

\* The positions of the loaded records that satisfy every field constraint.
KeptIdx == {i \in 1..Len(fullData) : AllFieldsAccept(fullData[i])}

\* The j-th smallest element of a set of positions.
Nth(S, j) == CHOOSE i \in S : Cardinality({k \in S : k < i}) = j - 1

\* C2: with the date and age range as populate left them, the filtered view
\* is the subsequence of the loaded records at exactly the positions whose
\* record satisfies every field constraint (for each of the six fields the
\* accepted-value set is empty or holds the text of the record's value), in
\* the order of the loaded records.
C2_FieldSubsequence ==
    /\ Len(filteredData) = Cardinality(KeptIdx)
    /\ \A j \in 1..Len(filteredData) : filteredData[j] = fullData[Nth(KeptIdx, j)]

\* Two fields are constrained, the first and the last record are kept and
\* the one between them is dropped.
C2_Witness ==
    /\ lastEvent = "filter"
    /\ Cardinality({f \in FilterFields : selected[f] # <<>>}) >= 2
    /\ Len(fullData) = 3
    /\ KeptIdx = {1, 3}
    /\ filteredData = <<fullData[1], fullData[3]>>
    /\ \E f \in FilterFields : selected[f] # <<>> /\ FieldAccepts(f, fullData[2])
    /\ \E f \in FilterFields : ~FieldAccepts(f, fullData[2])

\* C3: a record that the other checks accept is in the filtered view exactly
\* when the start or the end date is unset, or its date is no valid date, or
\* its local calendar day lies between the start day and the end day, both
\* included.
C3_DateCheck ==
    Fresh =>
        \A i \in 1..Len(fullData) :
            LET r == fullData[i]
            IN (AllFieldsAccept(r) /\ AgeAccepts(r)) => (InView(r) <=> DateAccepts(r))

\* A record on the last instant of the end day is kept while a record with a
\* valid date before the start day is dropped.
C3_Witness ==
    /\ Fresh
    /\ dom.dateStart # <<>> /\ dom.dateEnd # <<>>
    /\ \E i \in 1..Len(fullData) :
          /\ fullData[i]["date"].k = "date"
          /\ fullData[i]["date"].n = EndOfLocalDay(dom.dateEnd[1], tz)
          /\ InView(fullData[i])
    /\ \E i \in 1..Len(fullData) :
          /\ fullData[i]["date"].k = "date"
          /\ AllFieldsAccept(fullData[i]) /\ AgeAccepts(fullData[i])
          /\ ~InView(fullData[i])

\* C4: a record that the other checks accept is in the filtered view exactly
\* when its age is no number or lies between ageMin and ageMax, both included.
C4_AgeCheck ==
    Fresh =>
        \A i \in 1..Len(fullData) :
            LET r == fullData[i]
            IN (AllFieldsAccept(r) /\ DateAccepts(r)) => (InView(r) <=> AgeAccepts(r))

\* A record without a numeric age is kept while one with an age above ageMax
\* is dropped and one with the age ageMin is kept.
C4_Witness ==
    /\ Fresh
    /\ \E i \in 1..Len(fullData) :
          fullData[i]["age"].k # "num" /\ InView(fullData[i])
    /\ \E i \in 1..Len(fullData) :
          /\ fullData[i]["age"].k = "num"
          /\ AllFieldsAccept(fullData[i]) /\ DateAccepts(fullData[i])
          /\ ~InView(fullData[i])

\* C5: after the Clear button was handled on loaded records, every
\* accepted-value set is empty, the date inputs hold the original date range
\* (nothing when no original date range exists), the sliders hold the original
\* age range, and applyFilters returns all the loaded records.
C5_ClearResets ==
    (lastEvent = "clear" /\ Len(fullData) > 0) =>
        /\ selected = NoSelection
        /\ dom.dateStart = originalRanges.dateMin
        /\ dom.dateEnd = originalRanges.dateMax
        /\ dom.ageMin = originalRanges.ageMin
        /\ dom.ageMax = originalRanges.ageMax
        /\ ApplyFilters(fullData, Criteria) = fullData

\* C6: once records are loaded, the criteria read from the widgets always have
\* dateStart <= dateEnd when both are set, and ageMin <= ageMax.
C6_RangesOrdered ==
    Len(fullData) > 0 =>
        /\ (Criteria.dateStart.k = "date" /\ Criteria.dateEnd.k = "date")
              => Criteria.dateStart.n <= Criteria.dateEnd.n
        /\ Criteria.ageMin <= Criteria.ageMax

\* A step that ends a load attempt: the parse settled, or the file was
\* rejected for its extension.
LoadEnds ==
    /\ fileStatus' \in {"success", "error"}
    /\ pending' < pending \/ fileStatus' # fileStatus

\* C7: every load attempt ends either in the success status with the loaded
\* records replaced by the records of the file, or in the error status with
\* the loaded records and the filtered view as they were.
C7_LoadOutcome ==
    [][LoadEnds =>
          \/ /\ fileStatus' = "success"
             /\ fullData' \in ParsedFiles[tz]
          \/ /\ fileStatus' = "error"
             /\ UNCHANGED <<fullData, filteredData>>]_vars

\* C8: when a load succeeds with the records of a file, the loaded records and
\* the filtered view are exactly those records.
C8_Replaced ==
    [][\A data \in ParsedFiles[tz] :
          (ParseResolved(data) /\ fileStatus' = "success")
              => (fullData' = data /\ filteredData' = data)]_vars

\* A successful load of records without ages after a file with ages had been
\* loaded (the original age range still is that of the earlier file).
C8_Witness ==
    /\ lastEvent = "load"
    /\ fileStatus = "success"
    /\ Len(fullData) > 0
    /\ filteredData = fullData
    /\ ValidAges(fullData) = {}
    /\ originalRanges.ageMax # DefaultAgeMax

\* C9: after a filter-change event on loaded records the filtered view is
\* applyFilters of the loaded records under the criteria the widgets hold.
C9_ViewIsCurrent ==
    Fresh => filteredData = ApplyFilters(fullData, Criteria)

\* A filter change that left a proper, non-empty part of the loaded records.
C9_Witness ==
    /\ lastEvent = "filter"
    /\ Len(filteredData) > 0
    /\ Len(filteredData) < Len(fullData)
    /\ \E f \in FilterFields : selected[f] # <<>>

\* The identifiers that are not empty.
NonEmptyIds(data) ==
    {data[i]["employee"] : i \in 1..Len(data)} \ {Undef, Null, Str("")}

\* C10: for the loaded records and for the filtered view, getUniquePatients is
\* the number of distinct non-empty identifiers, is at most the number of
\* records, and is 0 when there is no record.
C10_UniquePatients ==
    \A view \in {fullData, filteredData} :
        /\ GetUniquePatients(view) = Cardinality(NonEmptyIds(view))
        /\ GetUniquePatients(view) <= Len(view)
        /\ Len(view) = 0 => GetUniquePatients(view) = 0

\* A filtered view with an empty identifier, or the same identifier twice, so
\* that the count is below the number of records.
C10_Witness ==
    /\ Fresh
    /\ Len(filteredData) > 0
    /\ \E i \in 1..Len(filteredData) : filteredData[i]["employee"] = Str("")
    /\ GetUniquePatients(filteredData) < Len(filteredData)

\* ------------------------------------------------- the chart toolbar
\* A fourth specification for the toolbar of a chart: a file of visits has
\* just been loaded, and the user works the company filter, the Clear
\* button and the buttons of the chart's toolbar.

\* The click on the button "table": ChartToolbar.showTableView
ShowTableView ==
    /\ toolbar.built
    /\ toolbar' = RenderTable([toolbar EXCEPT !.active = TRUE])
    /\ UNCHANGED <<tz, fullData, filteredData, selected, dom, originalRanges,
                   fileStatus, pending, lastEvent, inflight>>

\* The click on the button "chart": ChartToolbar.showChartView
ShowChartView ==
    /\ toolbar.built
    /\ toolbar.active
    /\ toolbar' = [toolbar EXCEPT !.active = FALSE]
    /\ UNCHANGED <<tz, fullData, filteredData, selected, dom, originalRanges,
                   fileStatus, pending, lastEvent, inflight>>

\* The click on the button "download": ChartToolbar.downloadCSV writes the
\* rows of chartData[chartId].data to the file.
DownloadCSV ==
    /\ toolbar.built
    /\ toolbar' = [toolbar EXCEPT !.exported = toolbar.data]
    /\ UNCHANGED <<tz, fullData, filteredData, selected, dom, originalRanges,
                   fileStatus, pending, lastEvent, inflight>>

ToolbarNext ==
    \/ \E v \in GetUniqueValues(fullData, "company") : ToggleOption("company", v)
    \/ ClearAll("company")
    \/ ClearClick
    \/ ShowTableView
    \/ ShowChartView
    \/ DownloadCSV

ToolbarSpec == ViewInit /\ [][ToolbarNext]_vars

\* ------------------------------------------------- overlapping loads
\* A fifth specification for loads that overlap: the user selects files
\* while parses are in flight, and the parses resolve in any order.  Here
\* inflight lists every file selected, in the order of selection, with a
\* mark on those whose parse has resolved.

\* The change handler up to the await, for a file of known content.
SelectFileOf(data) ==
    /\ Len(inflight) < MaxPending + 1
    /\ \E ext \in SupportedExt : Selecting(ext, MaxPending + 1)
    /\ inflight' = Append(inflight, [data |-> data, done |-> FALSE])

\* The rest of the handler of the i-th file selected, once its parse
\* resolved; parses of different files end in any order.
ParseResolvedOf(i) ==
    /\ i \in 1..Len(inflight)
    /\ ~inflight[i].done
    /\ Resolving(inflight[i].data)
    /\ inflight' = [inflight EXCEPT ![i].done = TRUE]

RaceNext ==
    \/ \E data \in ParsedFiles[tz] : SelectFileOf(data)
    \/ \E i \in 1..(MaxPending + 1) : ParseResolvedOf(i)

RaceSpec == Init /\ [][RaceNext]_vars

\* ------------------------------------------------- claims on aggregates
\* The records the aggregates are computed from.
View == filteredData

\* The non-empty identifiers of a view, and the first record of each.
PatientIds(data) == NonEmptyIds(data)
FirstIndexOf(data, id) ==
    CHOOSE i \in 1..Len(data) :
        data[i]["employee"] = id /\ \A j \in 1..(i - 1) : data[j]["employee"] # id

\* The sum of the field count over a list of entries.
SumCounts(entries) ==
    LET f[i \in 0..Len(entries)] == IF i = 0 THEN 0 ELSE f[i - 1] + entries[i].count
    IN f[Len(entries)]

\* The ten brackets in their fixed order, and the whole years of each.
BracketTable ==
    <<[name |-> "<18", lo |-> 0 - MaxAge, hi |-> 17],
      [name |-> "18-24", lo |-> 18, hi |-> 24],
      [name |-> "25-34", lo |-> 25, hi |-> 34],
      [name |-> "35-44", lo |-> 35, hi |-> 44],
      [name |-> "45-54", lo |-> 45, hi |-> 54],
      [name |-> "55-64", lo |-> 55, hi |-> 64],
      [name |-> "65-74", lo |-> 65, hi |-> 74],
      [name |-> "75-84", lo |-> 75, hi |-> 84],
      [name |-> "85+", lo |-> 85, hi |-> MaxAge + 1],
      [name |-> "Unknown", lo |-> 1, hi |-> 0]>>

BracketIndex(name) == CHOOSE i \in 1..Len(BracketTable) : BracketTable[i].name = name

\* The ages checked: every multiple of 1/AgeDen year from -1 to MaxAge, and
\* values that are no number (processData leaves a number, null or undefined
\* in the age column).
NumericAges == {Num(n) : n \in (0 - AgeDen)..(MaxAge * AgeDen)}
NonNumericAges == {Null, Undef, Str("n/a")}

\* C18: getAgeBracketDistribution counts every distinct non-empty identifier
\* once, in the bracket of the age on its first record, so its counts sum to
\* getUniquePatients.
C18_PatientsOnce ==
    LET dist == GetAgeBracketDistribution(View)
        BracketOf(id) == CategorizeAgeBracket(View[FirstIndexOf(View, id)]["age"])
    IN /\ SumCounts(dist) = GetUniquePatients(View)
       /\ \A i \in 1..Len(dist) :
             dist[i].count =
                 Cardinality({id \in PatientIds(View) : BracketOf(id) = dist[i].bracket})
       /\ \A id \in PatientIds(View) :
             \E i \in 1..Len(dist) : dist[i].bracket = BracketOf(id)

\* A patient with two records whose ages fall in different brackets, the
\* first one deciding.
C18_Witness ==
    /\ \E i, j \in 1..Len(View) :
          /\ i < j
          /\ Truthy(View[i]["employee"])
          /\ View[i]["employee"] = View[j]["employee"]
          /\ CategorizeAgeBracket(View[i]["age"]) # CategorizeAgeBracket(View[j]["age"])
    /\ Len(View) = 3
    /\ GetUniquePatients(View) = 2
    /\ SumCounts(GetAgeBracketDistribution(View)) = 2

\* C19: getAgeBracketDistribution returns exactly the brackets with at least
\* one patient, each with a count of at least 1, in the fixed order <18,
\* 18-24, 25-34, 35-44, 45-54, 55-64, 65-74, 75-84, 85+, Unknown.
C19_BracketOrder ==
    LET dist == GetAgeBracketDistribution(View)
        BracketOf(id) == CategorizeAgeBracket(View[FirstIndexOf(View, id)]["age"])
    IN /\ {dist[i].bracket : i \in 1..Len(dist)} = {BracketOf(id) : id \in PatientIds(View)}
       /\ \A i \in 1..Len(dist) : dist[i].count >= 1
       /\ \A i, j \in 1..Len(dist) :
             i < j => BracketIndex(dist[i].bracket) < BracketIndex(dist[j].bracket)

\* A bracket with one patient listed before a later bracket with two, from
\* records that start with a patient of the later bracket.
C19_Witness ==
    LET dist == GetAgeBracketDistribution(View)
    IN /\ Len(dist) = 2
       /\ dist[1].count < dist[2].count
       /\ Truthy(View[1]["employee"])
       /\ CategorizeAgeBracket(View[1]["age"]) = dist[2].bracket

\* C20: categorizeAgeBracket maps every age to exactly one bracket: a value
\* that is no number to Unknown, a number to the bracket whose whole years
\* hold its floor (below 18 to <18, 85 and more to 85+); the bracket never
\* goes down when the age goes up.
C20_Brackets ==
    /\ \A age \in NonNumericAges : CategorizeAgeBracket(age) = "Unknown"
    /\ \A age \in NumericAges :
          LET b == BracketTable[BracketIndex(CategorizeAgeBracket(age))]
          IN /\ b.lo * AgeDen <= age.n
             /\ age.n < (b.hi + 1) * AgeDen
             /\ Cardinality({i \in 1..Len(BracketTable) :
                    /\ BracketTable[i].lo * AgeDen <= age.n
                    /\ age.n < (BracketTable[i].hi + 1) * AgeDen}) = 1
    /\ \A age \in NumericAges :
          Num(age.n + 1) \in NumericAges =>
              BracketIndex(CategorizeAgeBracket(age))
                  <= BracketIndex(CategorizeAgeBracket(Num(age.n + 1)))
    /\ \A i \in 1..Len(View) :
          View[i]["age"].k = "num" => View[i]["age"] \in NumericAges

\* The view holds an age just below a bracket limit, one on the limit, and a
\* record without a numeric age, and they are put in three brackets.
C20_Witness ==
    /\ \E i \in 1..Len(View) :
          /\ View[i]["age"].k = "num"
          /\ View[i]["age"].n = 18 * AgeDen - 1
          /\ CategorizeAgeBracket(View[i]["age"]) = "<18"
    /\ \E i \in 1..Len(View) :
          /\ View[i]["age"].k = "num"
          /\ View[i]["age"].n = 18 * AgeDen
          /\ CategorizeAgeBracket(View[i]["age"]) = "18-24"
    /\ \E i \in 1..Len(View) :
          View[i]["age"].k # "num" /\ CategorizeAgeBracket(View[i]["age"]) = "Unknown"

\* A cell that is missing or empty.
Missing(v) == v \in {Undef, Null, Str("")}

\* The records of each value of a column: the text of every value present
\* mapped to the positions of the records carrying it; with a placeholder
\* (not ""), the records with a missing value are those of the placeholder.
BucketRows(data, column, placeholder) ==
    LET present == {String(data[i][column]) :
                       i \in {j \in 1..Len(data) : ~Missing(data[j][column])}}
        missing == {i \in 1..Len(data) : Missing(data[i][column])}
        keys == present \cup (IF placeholder # "" /\ missing # {} THEN {placeholder} ELSE {})
    IN [k \in keys |->
          {i \in 1..Len(data) : ~Missing(data[i][column]) /\ String(data[i][column]) = k}
          \cup (IF k = placeholder THEN missing ELSE {})]

\* The number of records of each value.
RecordCounts(buckets) == [k \in DOMAIN buckets |-> Cardinality(buckets[k])]

\* A top-N result for the counts cnt: min(N, number of values) entries with
\* different values, each with the count of its value, counts never
\* increasing, and no value left out that counts more than a returned one.
TopNOk(result, cnt, N) ==
    /\ Len(result) = Min({N, Cardinality(DOMAIN cnt)})
    /\ \A i \in 1..Len(result) :
          result[i].key \in DOMAIN cnt /\ result[i].count = cnt[result[i].key]
    /\ \A i, j \in 1..Len(result) : i < j =>
          /\ result[i].key # result[j].key
          /\ result[i].count >= result[j].count
    /\ \A k \in DOMAIN cnt \ {result[i].key : i \in 1..Len(result)} :
          \A i \in 1..Len(result) : cnt[k] <= result[i].count

\* C13: getTopFindings, getICDDistribution and getLabelDistribution with N
\* return min(N, number of distinct values) entries, each with the number of
\* records carrying its value, counts non-increasing, and no omitted value
\* counts more than a returned one.
C13_TopN ==
    \A N \in TopNs :
        /\ TopNOk(GetTopFindings(View, N), RecordCounts(BucketRows(View, "finding", "")), N)
        /\ TopNOk(GetICDDistribution(View, N),
                  RecordCounts(BucketRows(View, "icd", "No ICD")), N)
        /\ TopNOk(GetLabelDistribution(View, N),
                  RecordCounts(BucketRows(View, "label", "Unclassified")), N)

\* Three records of one patient with two findings, one of them on two records
\* (so the count is of records, not of patients); N = 1 keeps the finding that
\* counts 2 and drops the other.
C13_Witness ==
    /\ Len(View) = 3
    /\ Cardinality(DOMAIN BucketRows(View, "finding", "")) = 2
    /\ GetUniquePatients(View) = 1
    /\ Len(GetTopFindings(View, 1)) = 1
    /\ GetTopFindings(View, 1)[1].count = 2
    /\ Len(GetTopFindings(View, 2)) = 2

\* The position of the first record of each value.
FirstSeen(buckets) == [k \in DOMAIN buckets |-> Min(buckets[k])]

\* Entries with equal counts come in the order of the first records of their
\* values.
TiesInEncounterOrder(result, buckets) ==
    \A i, j \in 1..Len(result) :
        (i < j /\ result[i].count = result[j].count)
            => FirstSeen(buckets)[result[i].key] < FirstSeen(buckets)[result[j].key]

\* C14: in the top-N results for findings, ICD codes, labels, companies and
\* purposes, values with equal counts come in the order in which they were
\* first met in the records, integer-like values included.
C14_StableTies ==
    \A N \in TopNs :
        /\ TiesInEncounterOrder(GetTopFindings(View, N), BucketRows(View, "finding", ""))
        /\ TiesInEncounterOrder(GetICDDistribution(View, N), BucketRows(View, "icd", "No ICD"))
        /\ TiesInEncounterOrder(GetLabelDistribution(View, N),
                                BucketRows(View, "label", "Unclassified"))
        /\ TiesInEncounterOrder(GetCompanyDistribution(View, N),
                                BucketRows(View, "company", ""))
        /\ TiesInEncounterOrder(GetPurposeDistribution(View, N),
                                BucketRows(View, "purpose", ""))

PatientsOf(data, buckets) ==
    [k \in DOMAIN buckets |->
        Cardinality({data[i]["employee"] : i \in buckets[k]} \cap PatientIds(data))]

\* C16: getCompanyDistribution and getPurposeDistribution return, for each
\* category value present, the number of distinct non-empty patient
\* identifiers among the records of that category, in descending order of
\* that number, cut to the first N.
C16_CategoryPatients ==
    \A N \in TopNs :
        /\ TopNOk(GetCompanyDistribution(View, N),
                  PatientsOf(View, BucketRows(View, "company", "")), N)
        /\ TopNOk(GetPurposeDistribution(View, N),
                  PatientsOf(View, BucketRows(View, "purpose", "")), N)

\* Two companies, the first met with fewer patients than records and fewer
\* patients than the second: the second comes first, and N = 1 keeps only it.
C16_Witness ==
    LET buckets == BucketRows(View, "company", "")
        all == GetCompanyDistribution(View, Len(View))
    IN /\ Len(all) = 2
       /\ FirstSeen(buckets)[all[1].key] > FirstSeen(buckets)[all[2].key]
       /\ all[2].count < Cardinality(buckets[all[2].key])
       /\ all[1].count > all[2].count
       /\ GetCompanyDistribution(View, 1) = <<all[1]>>

\* C17: getSexDistribution returns one entry for every sex value present,
\* plus an "Unknown" entry for the records with a missing sex, each with the
\* number of distinct non-empty patient identifiers of its records, and the
\* entries are in descending order of count.
C17_SexSorted ==
    LET result == GetSexDistribution(View)
        cnt == PatientsOf(View, BucketRows(View, "sex", "Unknown"))
    IN /\ {result[i].key : i \in 1..Len(result)} = DOMAIN cnt
       /\ Len(result) = Cardinality(DOMAIN cnt)
       /\ \A i \in 1..Len(result) : result[i].count = cnt[result[i].key]
       /\ \A i, j \in 1..Len(result) : i < j => result[i].count >= result[j].count

\* The part of C17 on the entries and their counts, without the order.
C17_SexEntries ==
    LET result == GetSexDistribution(View)
        cnt == PatientsOf(View, BucketRows(View, "sex", "Unknown"))
    IN /\ {result[i].key : i \in 1..Len(result)} = DOMAIN cnt
       /\ Len(result) = Cardinality(DOMAIN cnt)
       /\ \A i \in 1..Len(result) : result[i].count = cnt[result[i].key]

\* The records with a valid date, and those of one UTC day (the day of
\* formatDateKey).
ValidDated(data) == {i \in 1..Len(data) : data[i]["date"].k = "date"}
OnDay(data, day) == {i \in ValidDated(data) : UtcDay(data[i]["date"].n) = day}
Days(data) == {UtcDay(data[i]["date"].n) : i \in ValidDated(data)}

SumTotalRecords(entries) ==
    LET f[i \in 0..Len(entries)] ==
            IF i = 0 THEN 0 ELSE f[i - 1] + entries[i].totalRecords
    IN f[Len(entries)]

Months(data, zone) ==
    {FormatMonthKey(data[i]["date"], zone) : i \in ValidDated(data)}

\* One entry per key of groups, in strictly ascending order.
OnePerGroup(entries, groups) ==
    /\ {entries[i].key : i \in 1..Len(entries)} = groups
    /\ Len(entries) = Cardinality(groups)

AscendingDays(entries) ==
    \A i, j \in 1..Len(entries) : i < j => entries[i].key < entries[j].key

AscendingMonths(entries) ==
    \A i, j \in 1..Len(entries) : i < j =>
        /\ entries[i].key.valid /\ entries[j].key.valid
        /\ entries[i].key.m < entries[j].key.m

\* What C12 says of the five rollups on the records data.
RollupsInOrder(data) ==
    /\ \A o \in GetPatientsPerDay(data) \cup GetDailyStats(data) \cup GetFindingsPerDay(data) :
          /\ ~o.threw
          /\ OnePerGroup(o.entries, Days(data))
          /\ AscendingDays(o.entries)
    /\ \A o \in GetPatientsPerMonth(data, tz) \cup GetFindingsPerMonth(data, tz) :
          /\ ~o.threw
          /\ OnePerGroup(o.entries, Months(data, tz))
          /\ AscendingMonths(o.entries)

\* C12: getPatientsPerDay, getPatientsPerMonth, getDailyStats,
\* getFindingsPerDay and getFindingsPerMonth return exactly one entry per
\* distinct day (or month) found among the records with a valid date, none
\* for the records without one, in strictly ascending order of the key,
\* whatever the order of the records.
C12_Rollups == RollupsInOrder(View)

\* The same on the views without a record carrying an invalid Date.
C12_RollupsOfValidDates ==
    (\A i \in 1..Len(View) : View[i]["date"].k # "baddate") => RollupsInOrder(View)

\* The records with a valid date falling, in local time, on the weekday of
\* position w, Monday being 1 and Sunday 7 (local day 0 is a Thursday).
OnWeekday(data, zone, w) ==
    {i \in ValidDated(data) : ((LocalDay(data[i]["date"].n, zone) + 3) % 7) + 1 = w}

\* C21: getWeekdayDistribution returns, for every input, seven entries in the
\* order Monday .. Sunday; each count is the number of distinct non-empty
\* patient identifiers among the records whose date falls on that weekday,
\* and 0 for a weekday without records.
C21_Weekdays ==
    LET result == GetWeekdayDistribution(View, tz)
    IN /\ [i \in 1..Len(result) |-> result[i].key] =
             <<"Monday", "Tuesday", "Wednesday", "Thursday", "Friday", "Saturday", "Sunday">>
       /\ \A w \in 1..Len(result) :
             result[w].count =
                Cardinality({View[i]["employee"] : i \in OnWeekday(View, tz, w)}
                            \cap PatientIds(View))

\* A view with a patient on a Sunday, counted in the seventh entry, a
\* record without identifier, and weekdays without records.
C21_Witness ==
    /\ GetWeekdayDistribution(View, tz)[7].count = 1
    /\ GetWeekdayDistribution(View, tz)[1].count = 0
    /\ \E i \in OnWeekday(View, tz, 7) : View[i]["employee"] \notin PatientIds(View)

\* The empty view gives seven entries of count 0.
C21_EmptyWitness ==
    /\ Len(View) = 0
    /\ Len(GetWeekdayDistribution(View, tz)) = 7
    /\ \A w \in 1..7 : GetWeekdayDistribution(View, tz)[w].count = 0

\* The records of a set that carry a finding, and those carrying one finding.
WithFinding(data, rows) == {i \in rows : ~Missing(data[i]["finding"])}
WithFindingOf(data, rows, text) ==
    {i \in WithFinding(data, rows) : String(data[i]["finding"]) = text}

\* What C22 and C23 say of the top finding of a set of records: a finding of
\* these records that no other finding of them outnumbers, with the number of
\* records carrying it; "N/A" and 0 when none of them carries a finding.
IsTopFinding(data, rows, topFinding, count) ==
    IF WithFinding(data, rows) = {}
    THEN topFinding = "N/A" /\ count = 0
    ELSE /\ count = Cardinality(WithFindingOf(data, rows, topFinding))
         /\ count > 0
         /\ \A i \in WithFinding(data, rows) :
               Cardinality(WithFindingOf(data, rows, String(data[i]["finding"]))) <= count

\* The records with a valid date in one local month.
InMonth(data, zone, month) ==
    {i \in ValidDated(data) : FormatMonthKey(data[i]["date"], zone) = month}

\* What C22 says of the records data.
PeakMonthOk(data, zone) ==
    \A r \in GetPeakMonthFinding(data, zone) :
        IF Months(data, zone) = {}
        THEN r = [monthName |-> NoMonth, topFinding |-> "N/A", count |-> 0]
        ELSE \E month \in Months(data, zone) :
                /\ r.monthName = [text |-> "month", m |-> month.m]
                /\ \A other \in Months(data, zone) :
                      Cardinality(WithFinding(data, InMonth(data, zone, other)))
                         <= Cardinality(WithFinding(data, InMonth(data, zone, month)))
                /\ IsTopFinding(data, InMonth(data, zone, month), r.topFinding, r.count)

\* C22: getPeakMonthFinding returns the label of a calendar month whose total
\* finding count is the maximum of the per-month rollup, with the finding
\* that has the highest record count among the records of that month and
\* that count; without data it returns "N/A", "N/A" and 0.
C22_PeakMonth == PeakMonthOk(View, tz)

\* The same on the views without a record carrying an invalid Date.
C22_PeakMonthOfValidDates ==
    (\A i \in 1..Len(View) : View[i]["date"].k # "baddate") => PeakMonthOk(View, tz)

\* The bracket of the table an age belongs to: the one whose whole years hold
\* it, "Unknown" for what is no number.
TableBracket(age) ==
    IF age.k # "num" THEN "Unknown"
    ELSE BracketTable[CHOOSE i \in 1..Len(BracketTable) :
                         /\ BracketTable[i].lo * AgeDen <= age.n
                         /\ age.n < (BracketTable[i].hi + 1) * AgeDen].name

\* The patients of a bracket: the non-empty identifiers whose first record
\* has an age of the bracket.
PatientsIn(data, bracket) ==
    {id \in PatientIds(data) : TableBracket(data[FirstIndexOf(data, id)]["age"]) = bracket}

KnownBrackets == {BracketTable[i].name : i \in 1..Len(BracketTable)} \ {"Unknown"}

\* C23: getLargestAgeBracketFinding returns the bracket other than Unknown
\* with the most distinct patients in the age-bracket distribution, with the
\* top finding by record count of that bracket's records and its count; when
\* no patient is in such a bracket it returns "N/A", "N/A" and 0.
C23_LargestBracket ==
    LET r == GetLargestAgeBracketFinding(View)
    IN IF \A b \in KnownBrackets : PatientsIn(View, b) = {}
       THEN r = [bracket |-> "N/A", topFinding |-> "N/A", count |-> 0]
       ELSE /\ r.bracket \in KnownBrackets
            /\ \A b \in KnownBrackets :
                  Cardinality(PatientsIn(View, b)) <= Cardinality(PatientsIn(View, r.bracket))
            /\ IsTopFinding(View, {i \in 1..Len(View) : TableBracket(View[i]["age"]) = r.bracket},
                            r.topFinding, r.count)

\* Two brackets with patients, the later one of the fixed order with more of
\* them: it is returned with a finding of its records.
C23_Witness ==
    LET r == GetLargestAgeBracketFinding(View)
    IN /\ r.bracket \in KnownBrackets
       /\ \E b \in KnownBrackets :
             /\ BracketIndex(b) < BracketIndex(r.bracket)
             /\ PatientsIn(View, b) # {}
             /\ Cardinality(PatientsIn(View, b)) < Cardinality(PatientsIn(View, r.bracket))
       /\ r.count = 1
       /\ r.topFinding # "N/A"

\* Records whose patients are all in Unknown, or without identifier: "N/A".
C23_NoBracketWitness ==
    /\ Len(View) > 0
    /\ GetLargestAgeBracketFinding(View) = [bracket |-> "N/A", topFinding |-> "N/A", count |-> 0]

\* ------------------------------------------------- claims on the pipeline
\* A date that is null, absent or a valid Date; an age that is null, absent
\* or a number.
CleanDate(v) == v.k \in {"null", "undef", "date"}
CleanAge(v) == v.k \in {"null", "undef", "num"}

\* C24: after the processing at load time every record of the Record Set has
\* a date that is null, absent or a valid date and an age that is null,
\* absent or a number; no malformed value reaches the filter or the
\* aggregators, and none makes the render cycle raise an error.
C24_CleanRecords ==
    /\ \A i \in 1..Len(fullData) :
          CleanDate(fullData[i]["date"]) /\ CleanAge(fullData[i]["age"])
    /\ ~RefreshThrows(fullData)

\* The part of C24 on the ages, and on the dates that are no Date object
\* when parsed.
C24_AgesClean ==
    \A i \in 1..Len(fullData) :
        /\ CleanAge(fullData[i]["age"])
        /\ fullData[i]["date"].k \in {"null", "undef", "date", "baddate"}

\* C25: a download of the chart's CSV exports the aggregate view of the
\* current filtered records, those of the latest load or filter change, never
\* the view of an earlier filter state.
C25_ExportIsCurrent ==
    [][DownloadCSV => toolbar'.exported = ChartRows(filteredData)]_vars

\* The same for the downloads not preceded by a render cycle that raised.
C25_ExportAfterRender ==
    [][(DownloadCSV /\ ~RefreshThrows(filteredData))
          => toolbar'.exported = ChartRows(filteredData)]_vars

\* The rows of the table on display, if one is: a view is displayed when it
\* has the class active, and a table view left active further out hides the
\* chart view holding the wrappers built after it.
TableDisplayed(tb) == tb.left # <<>> \/ tb.active
DisplayedRows(tb) == IF tb.left # <<>> THEN tb.left[1] ELSE tb.shown

\* C28: when the chart shows its table view and a filter change or a load
\* triggers a render cycle, the rows of the table afterwards are the chart's
\* aggregate view of the new filtered records, never those of the previous
\* filter state.
C28_TableIsCurrent ==
    TableDisplayed(toolbar) => DisplayedRows(toolbar) = ChartRows(filteredData)

\* What the table shows at the moment it is opened.
C28_TableWhenOpened ==
    [][ShowTableView => (toolbar'.shown = toolbar.data /\ toolbar'.active)]_vars

\* C26: when the user selected file A and then file B before A's parse had
\* resolved, then once both parses have resolved the loaded records and the
\* filtered view are those of B, the file selected last, in whatever order
\* the two parses resolved.
C26_LastSelectedWins ==
    (Len(inflight) = 2 /\ inflight[1].done /\ inflight[2].done)
        => (fullData = inflight[2].data /\ filteredData = inflight[2].data)

\* What holds instead: after a parse resolved, the loaded records are those
\* of the file whose parse resolved.
C26_LastResolvedWins ==
    [][\A i \in 1..(MaxPending + 1) :
          ParseResolvedOf(i) => (fullData' = inflight[i].data /\ filteredData' = inflight[i].data)]_vars

\* The filtered view is what is left of the loaded records when the records
\* at some positions are dropped.
IsSubsequence(view, data) ==
    \E keep \in SUBSET (1..Len(data)) :
        /\ Len(view) = Cardinality(keep)
        /\ \A j \in 1..Len(view) : view[j] = data[Nth(keep, j)]

\* C27: in every reachable state, over any interleaving of loads (succeeded,
\* failed, in flight), filter changes and clears, the filtered view is an
\* order-preserving subsequence of the loaded records; it holds no record
\* that is not among them.
C27_ViewWithinRecords ==
    /\ IsSubsequence(filteredData, fullData)
    /\ Range(filteredData) \subseteq Range(fullData)

\* A second file has been loaded over a filtered view of the first, a parse
\* is in flight again, and a filter change left the second record of two.
C27_Witness ==
    /\ pending > 0
    /\ lastEvent = "filter"
    /\ Len(fullData) = 2
    /\ filteredData = <<fullData[2]>>
    /\ fullData[1] # fullData[2]

\* What C29 says of a record of the view with a valid date, for the range of
\* the two date inputs: its day in the per-day rollups and in the export lies
\* in the range, and its month and its weekday are those of that day.
DayAgrees(date) ==
    /\ dom.dateStart[1] <= FormatDateKey(date) /\ FormatDateKey(date) <= dom.dateEnd[1]
    /\ dom.dateStart[1] <= ExportDateKey(date) /\ ExportDateKey(date) <= dom.dateEnd[1]
    /\ FormatMonthKey(date, tz) = [valid |-> TRUE, m |-> FormatDateKey(date) \div DaysPerMonth]
    /\ WeekdayKey(date, tz) = Weekdays[((FormatDateKey(date) + 3) % 7) + 1]

DateRangeSet == dom.dateStart # <<>> /\ dom.dateEnd # <<>>

\* C29: for any date range and any UTC offset of the browser, every record
\* that passes the date filter is grouped by the per-day rollups and written
\* by the export of the filtered records under a calendar day within the
\* range, and the day, the month and the weekday given to one record belong
\* to the same calendar date.
C29_DayAgreement ==
    (Fresh /\ DateRangeSet) =>
        \A i \in ValidDated(filteredData) : DayAgrees(filteredData[i]["date"])

\* The same in a browser whose zone is UTC.
C29_DayAgreementAtUtc ==
    (Fresh /\ DateRangeSet /\ tz = 0) =>
        \A i \in ValidDated(filteredData) : DayAgrees(filteredData[i]["date"])

\* A value that is absent: null or undefined.
Absent(v) == v.k \in {"null", "undef"}

\* The date and the age range constrain no loaded record.
FullRanges == \A i \in 1..Len(fullData) : DateAccepts(fullData[i]) /\ AgeAccepts(fullData[i])

\* Exactly the field f is constrained, to the one value v.
AloneSelected(f, v) ==
    /\ selected[f] = <<v>>
    /\ \A g \in FilterFields \ {f} : selected[g] = <<>>

\* C30: a record whose value for a filter field is absent (null or undefined)
\* is excluded by every non-empty accepted-value set for that field the
\* options offered for the data allow; and every offered value, selected
\* alone with full date and age ranges, selects at least one record and only
\* records whose value is that text.
C30_AbsentExcluded ==
    Fresh =>
        /\ \A f \in FilterFields :
              selected[f] # <<>> =>
                  \A i \in 1..Len(filteredData) : ~Absent(filteredData[i][f])
        /\ \A f \in FilterFields : \A v \in GetUniqueValues(fullData, f) :
              (AloneSelected(f, v) /\ FullRanges) =>
                  /\ Len(filteredData) >= 1
                  /\ \A i \in 1..Len(filteredData) :
                        /\ ~Absent(filteredData[i][f])
                        /\ String(filteredData[i][f]) = v

\* The same for the selections that hold neither the text "null" nor the
\* text "undefined".
C30_AbsentExcludedButByName ==
    (Fresh /\ \A f \in FilterFields : Range(selected[f]) \cap {"null", "undefined"} = {}) =>
        /\ \A f \in FilterFields :
              selected[f] # <<>> =>
                  \A i \in 1..Len(filteredData) : ~Absent(filteredData[i][f])
        /\ \A f \in FilterFields : \A v \in GetUniqueValues(fullData, f) :
              (AloneSelected(f, v) /\ FullRanges) =>
                  /\ Len(filteredData) >= 1
                  /\ \A i \in 1..Len(filteredData) : String(filteredData[i][f]) = v

====
